---- MODULE Spec2Model ----
(***************************************************************************)
(* Model of the desktop command shim (packages/desktop/src-tauri/src/      *)
(* main.rs): the Tauri commands and the providers they delegate to.        *)
(*                                                                         *)
(* Every command invocation runs as its own asynchronous task.  A task     *)
(* makes its provider calls one at a time; each provider call is one       *)
(* atomic step.  The settings store is one shared resource: an in-memory   *)
(* content (loaded from the settings file by the first successful open of  *)
(* a process run) and the file on disk (written by save only).             *)
(***************************************************************************)
EXTENDS Integers, Sequences, FiniteSets, TLC

(* ---------------------------- bounds ----------------------------------- *)
NumTasks == 3        \* task slots: invocations that can be in flight at once

(* ---------------------------- constants -------------------------------- *)
STORE_NAME == "settings.json"
DEFAULT_SERVER_KEY == "defaultServerUrl"

Tasks == 1..NumTasks
Urls == {"http://a", "http://b"}
Versions == {"1.1.0", "1.2.0"}
Titles == {"Choose"}
\* "/b<FF>" stands for a path holding a byte that is not valid UTF-8
Paths == {"/a", "/b<FF>"}

(* ---------------------------- values ----------------------------------- *)
\* Option<T>: None is the empty tuple, Some(x) the one-element tuple
None == <<>>
Some(x) == <<x>>
IsSome(o) == Len(o) = 1
Unwrap(o) == o[1]
OptionOf(S) == {None} \cup {Some(x) : x \in S}

\* Result<T, String>
Ok(v) == [ok |-> TRUE, val |-> v, err |-> ""]
Err(m) == [ok |-> FALSE, val |-> None, err |-> m]
Unit == None

\* the messages of the providers' errors, as e.to_string() gives them
StoreOpenError == "store: cannot open"
StoreSaveError == "store: cannot save"
UpdaterBuildError == "updater: cannot build"
UpdaterCheckError == "updater: check failed"
InstallError == "updater: install failed"
OpenLinkError == "open: launcher failed"
NotifyError == "notification: show failed"

\* an error that swallows the provider's failure
MapErrSwallowed(e) == Ok(None)
\* .map_err(|e| e.to_string()) and Err(e) => Err(e.to_string())
MapErr(e) == Err(e)

\* a failed provider call is made again
AfterErrorRetry(pc) == pc
\* where an invocation goes on after a provider call failed: `?`, the Err arms
\* and the tail map_err all return to the caller
AfterError(pc) == "return"

\* serde_json values: json!(u) of a string is a JSON string
JsonString(s) == [t |-> "string", v |-> s]
JsonNumber == [t |-> "number", v |-> "42"]
\* Value::as_str
AsStr(j) == IF j.t = "string" THEN Some(j.v) ELSE None

\* Path::to_string_lossy().to_string(): invalid bytes become U+FFFD
ToStringLossy(p) == IF p = "/b<FF>" THEN "/b<U+FFFD>" ELSE p

RECURSIVE MapLossy(_)
MapLossy(ps) ==
    IF ps = <<>> THEN <<>> ELSE <<ToStringLossy(Head(ps))>> \o MapLossy(Tail(ps))

(* ---------------------------- the store provider ----------------------- *)
\* a store's content: a function from the keys it holds to JSON values
EmptyStore == [k \in {} |-> JsonNumber]
StoreHas(c, k) == k \in DOMAIN c
StoreGet(c, k) == IF StoreHas(c, k) THEN Some(c[k]) ELSE None
StoreSet(c, k, j) == [x \in (DOMAIN c) \cup {k} |-> IF x = k THEN j ELSE c[x]]
StoreDelete(c, k) == [x \in (DOMAIN c) \ {k} |-> c[x]]
SingleKey(j) == StoreSet(EmptyStore, DEFAULT_SERVER_KEY, j)

\* what the settings file can hold when the application starts
InitialFiles ==
    {EmptyStore, SingleKey(JsonNumber)} \cup {SingleKey(JsonString(u)) : u \in Urls}

VARIABLES
    storeAvailable,   \* whether app.store(STORE_NAME) can resolve and open the store
    updaterAvailable, \* whether app.updater() can build the updater
    loaded,           \* the store is in the process's resource table
    cache,            \* the store's in-memory content (EmptyStore until loaded)
    disk,             \* the content of the settings file
    manifest,         \* the update the manifest endpoint offers: None or Some(version)
    tasks,            \* per task slot: the invocation in flight
    last,             \* history: the invocation that returned most recently
    lastSet,          \* history: the set_default_server_url that returned most recently
    lastCheck,        \* history: the check_update that returned most recently
    together          \* history: the invocations dispatched together at the start

vars == <<storeAvailable, updaterAvailable, loaded, cache, disk, manifest,
          tasks, last, lastSet, lastCheck, together>>

env == <<storeAvailable, updaterAvailable, together>>
store == <<loaded, cache, disk>>
history == <<last, lastSet, lastCheck>>

Idle == [cmd |-> "none", arg |-> None, pc |-> "idle", calls |-> <<>>]
Invocation(cmd, arg, pc) == [cmd |-> cmd, arg |-> arg, pc |-> pc, calls |-> <<>>]
NoInvocation == [cmd |-> "none", arg |-> None, result |-> Ok(Unit), calls |-> <<>>]
NoSet == [valid |-> FALSE, arg |-> None, result |-> Ok(Unit)]
NoCheck == [valid |-> FALSE, result |-> Ok(Unit)]
NotTogether == [valid |-> FALSE, prior |-> Ok(None), args |-> {}]

\* a provider call: its name, whether it succeeded, and what it returned
\* (the error's message when it failed)
Call(name, ok, ret) == [call |-> name, ok |-> ok, ret |-> ret]

Init ==
    /\ storeAvailable \in BOOLEAN
    /\ updaterAvailable \in BOOLEAN
    /\ loaded = FALSE
    /\ cache = EmptyStore
    /\ disk \in InitialFiles
    /\ manifest \in OptionOf(Versions)
    /\ tasks = [t \in Tasks |-> Idle]
    /\ last = NoInvocation
    /\ lastSet = NoSet
    /\ lastCheck = NoCheck
    /\ together = NotTogether

(* ---------------------------- helpers ---------------------------------- *)
IsIdle(t) == tasks[t].pc = "idle"
AllIdle == \A t \in Tasks : IsIdle(t)
\* the dispatcher gives an invocation the first free task slot
IsFree(t) == IsIdle(t) /\ \A x \in Tasks : x < t => ~IsIdle(x)
At(t, cmd, pc) == tasks[t].cmd = cmd /\ tasks[t].pc = pc

\* the invocation of task t has made provider call c and goes on at pc
Proceed(t, c, pc) ==
    /\ tasks' = [tasks EXCEPT ![t].pc = pc, ![t].calls = Append(@, c)]
    /\ UNCHANGED history

\* the invocation of task t has made its final provider call c and returns r
Return(t, c, r) ==
    /\ tasks' = [tasks EXCEPT ![t] = Idle]
    /\ last' = [cmd |-> tasks[t].cmd, arg |-> tasks[t].arg, result |-> r,
                calls |-> Append(tasks[t].calls, c)]
    /\ lastSet' = IF tasks[t].cmd = "set_default_server_url"
                  THEN [valid |-> TRUE, arg |-> tasks[t].arg, result |-> r]
                  ELSE lastSet
    /\ lastCheck' = IF tasks[t].cmd = "check_update"
                    THEN [valid |-> TRUE, result |-> r]
                    ELSE lastCheck

\* the invocation of task t has made provider call c, which failed with message e
Fail(t, c, e) ==
    IF AfterError(tasks[t].pc) = "return"
    THEN Return(t, c, MapErr(e))
    ELSE Proceed(t, c, AfterError(tasks[t].pc))

\* a command that makes one provider call c and returns r in the same step
Atomic(t, cmd, c, r) ==
    /\ IsFree(t)
    /\ last' = [cmd |-> cmd, arg |-> None, result |-> r, calls |-> <<c>>]
    /\ UNCHANGED <<tasks, lastSet, lastCheck>>

\* an invocation is dispatched to task slot t
Begin(t, cmd, arg, pc) ==
    /\ IsFree(t)
    /\ tasks' = [tasks EXCEPT ![t] = Invocation(cmd, arg, pc)]
    /\ UNCHANGED history

(* ---------------------------- open_link, restart, notify --------------- *)
\* open_link: open::that(&url).map_err(|e| e.to_string())
OpenLinkResult(ok) == IF ok THEN Ok(Unit) ELSE MapErr(OpenLinkError)

OpenLink(t) ==
    \E url \in Urls, ok \in BOOLEAN :
        /\ Atomic(t, "open_link",
                  Call("open::that", ok, IF ok THEN Unit ELSE OpenLinkError),
                  OpenLinkResult(ok))
        /\ UNCHANGED <<env, store, manifest>>

\* restart: app.restart() ends the process and starts it again; the tasks in
\* flight and the store's in-memory content are lost, the settings file stays
Restart(t) ==
    /\ IsFree(t)
    /\ tasks' = [x \in Tasks |-> Idle]
    /\ loaded' = FALSE
    /\ cache' = EmptyStore
    /\ UNCHANGED <<env, disk, manifest, history>>

\* notify: the title always, the body when given, then show()
NotifyResult(ok) == IF ok THEN Ok(Unit) ELSE MapErr(NotifyError)

Notify(t) ==
    \E title \in Titles, body \in OptionOf(Titles), ok \in BOOLEAN :
        /\ Atomic(t, "notify",
                  Call("notification.show", ok, IF ok THEN Unit ELSE NotifyError),
                  NotifyResult(ok))
        /\ UNCHANGED <<env, store, manifest>>

(* ---------------------------- the pickers ------------------------------ *)
\* multiple.unwrap_or(false)
IsMultiple(multiple) == IF IsSome(multiple) THEN Unwrap(multiple) ELSE FALSE

\* what the user can answer: None (cancelled), or the selection (in multiple
\* mode a list of different paths)
PathLists ==
    {ps \in UNION {[1..n -> Paths] : n \in 1..Cardinality(Paths)} :
        \A i \in DOMAIN ps : \A j \in DOMAIN ps : ps[i] = ps[j] => i = j}
Answers(multiple) ==
    IF IsMultiple(multiple) THEN OptionOf(PathLists) ELSE OptionOf(Paths)

\* a cancelled dialog reported as an error
PickResultCancelIsError(multiple, answer) ==
    IF IsMultiple(multiple)
    THEN IF IsSome(answer) THEN Ok(Some(MapLossy(Unwrap(answer)))) ELSE Err("cancelled")
    ELSE IF IsSome(answer) THEN Ok(Some(<<ToStringLossy(Unwrap(answer))>>))
         ELSE Err("cancelled")
\* the match on pick_folders()/pick_files() (multiple) or pick_folder()/pick_file()
PickResult(multiple, answer) ==
    IF IsMultiple(multiple)
    THEN IF IsSome(answer) THEN Ok(Some(MapLossy(Unwrap(answer)))) ELSE Ok(None)
    ELSE IF IsSome(answer) THEN Ok(Some(<<ToStringLossy(Unwrap(answer))>>)) ELSE Ok(None)

\* the match on save_file()
SavePickResult(answer) ==
    IF IsSome(answer) THEN Ok(Some(ToStringLossy(Unwrap(answer)))) ELSE Ok(None)

OpenDirectoryPicker(t) ==
    \E title \in OptionOf(Titles), multiple \in OptionOf(BOOLEAN) :
        \E answer \in Answers(multiple) :
            /\ Atomic(t, "open_directory_picker",
                      Call(IF IsMultiple(multiple) THEN "pick_folders" ELSE "pick_folder",
                           TRUE, answer),
                      PickResult(multiple, answer))
            /\ UNCHANGED <<env, store, manifest>>

OpenFilePicker(t) ==
    \E title \in OptionOf(Titles), multiple \in OptionOf(BOOLEAN) :
        \E answer \in Answers(multiple) :
            /\ Atomic(t, "open_file_picker",
                      Call(IF IsMultiple(multiple) THEN "pick_files" ELSE "pick_file",
                           TRUE, answer),
                      PickResult(multiple, answer))
            /\ UNCHANGED <<env, store, manifest>>

SaveFilePicker(t) ==
    \E title \in OptionOf(Titles), default_path \in OptionOf(Paths) :
        \E answer \in OptionOf(Paths) :
            /\ Atomic(t, "save_file_picker", Call("save_file", TRUE, answer),
                      SavePickResult(answer))
            /\ UNCHANGED <<env, store, manifest>>

(* ---------------------------- the updater ------------------------------ *)
\* updater.check(): what the manifest offers, or a transport/manifest error
CheckOutcomes == {Ok(manifest), Err(UpdaterCheckError)}
CheckCall(outcome) ==
    Call("check", outcome.ok, IF outcome.ok THEN outcome.val ELSE outcome.err)

\* UpdateInfo
UpdateInfo(available, version) == [update_available |-> available, version |-> version]

\* an update found is reported as not available
CheckUpdateResultFlagFalse(outcome) ==
    IF outcome.ok
    THEN IF IsSome(outcome.val)
         THEN Ok(UpdateInfo(FALSE, Some(Unwrap(outcome.val))))
         ELSE Ok(UpdateInfo(FALSE, None))
    ELSE MapErr(outcome.err)
\* check_update's match on updater.check()
CheckUpdateResult(outcome) ==
    IF outcome.ok
    THEN IF IsSome(outcome.val)
         THEN Ok(UpdateInfo(TRUE, Some(Unwrap(outcome.val))))
         ELSE Ok(UpdateInfo(FALSE, None))
    ELSE MapErr(outcome.err)

\* the download is started whatever the re-check found
InstallDecisionAlways(outcome) ==
    IF outcome.ok
    THEN [download |-> TRUE, result |-> Ok(Unit)]
    ELSE [download |-> FALSE, result |-> MapErr(outcome.err)]
\* install_update's match on updater.check(): download, or what is returned
InstallDecision(outcome) ==
    IF outcome.ok
    THEN IF IsSome(outcome.val)
         THEN [download |-> TRUE, result |-> Ok(Unit)]
         ELSE [download |-> FALSE, result |-> Err("No update available")]
    ELSE [download |-> FALSE, result |-> MapErr(outcome.err)]

BeginCheckUpdate(t) ==
    /\ Begin(t, "check_update", None, "updater")
    /\ UNCHANGED <<env, store, manifest>>

BeginInstallUpdate(t) ==
    /\ Begin(t, "install_update", None, "updater")
    /\ UNCHANGED <<env, store, manifest>>

\* match app.updater(), in check_update and in install_update
Updater(t) ==
    /\ tasks[t].pc = "updater"
    /\ IF updaterAvailable
       THEN Proceed(t, Call("updater", TRUE, Unit), "check")
       ELSE Fail(t, Call("updater", FALSE, UpdaterBuildError), UpdaterBuildError)
    /\ UNCHANGED <<env, store, manifest>>

CheckUpdateCheck(t) ==
    /\ At(t, "check_update", "check")
    /\ \E outcome \in CheckOutcomes :
           IF outcome.ok
           THEN Return(t, CheckCall(outcome), CheckUpdateResult(outcome))
           ELSE IF AfterError("check") = "return"
                THEN Return(t, CheckCall(outcome), CheckUpdateResult(outcome))
                ELSE Proceed(t, CheckCall(outcome), AfterError("check"))
    /\ UNCHANGED <<env, store, manifest>>

InstallUpdateCheck(t) ==
    /\ At(t, "install_update", "check")
    /\ \E outcome \in CheckOutcomes :
           IF InstallDecision(outcome).download
           THEN Proceed(t, CheckCall(outcome), "download")
           ELSE IF outcome.ok \/ AfterError("check") = "return"
                THEN Return(t, CheckCall(outcome), InstallDecision(outcome).result)
                ELSE Proceed(t, CheckCall(outcome), AfterError("check"))
    /\ UNCHANGED <<env, store, manifest>>

\* update.download_and_install(|_, _| {}, || {}).await.map_err(|e| e.to_string())
InstallUpdateDownload(t) ==
    /\ At(t, "install_update", "download")
    /\ \E ok \in BOOLEAN :
           IF ok
           THEN Return(t, Call("download_and_install", TRUE, Unit), Ok(Unit))
           ELSE Fail(t, Call("download_and_install", FALSE, InstallError), InstallError)
    /\ UNCHANGED <<env, store, manifest>>

\* the manifest endpoint starts offering another release, or none
ManifestChange ==
    /\ manifest' \in OptionOf(Versions) \ {manifest}
    /\ UNCHANGED <<env, store, tasks, history>>

(* ---------------------------- the settings store ----------------------- *)
\* get_default_server_url's match on store.get(DEFAULT_SERVER_KEY)
GetResult(c) ==
    IF IsSome(StoreGet(c, DEFAULT_SERVER_KEY))
    THEN IF IsSome(AsStr(Unwrap(StoreGet(c, DEFAULT_SERVER_KEY))))
         THEN Ok(Some(Unwrap(AsStr(Unwrap(StoreGet(c, DEFAULT_SERVER_KEY))))))
         ELSE Ok(None)
    ELSE Ok(None)

\* the value is written only when the key holds none yet
SetWriteIfAbsent(c, url) ==
    IF IsSome(url)
    THEN IF StoreHas(c, DEFAULT_SERVER_KEY) THEN c
         ELSE StoreSet(c, DEFAULT_SERVER_KEY, JsonString(Unwrap(url)))
    ELSE StoreDelete(c, DEFAULT_SERVER_KEY)
\* a None url leaves the key as it is
SetWriteNoDelete(c, url) ==
    IF IsSome(url)
    THEN StoreSet(c, DEFAULT_SERVER_KEY, JsonString(Unwrap(url)))
    ELSE c
\* the value replaced is kept under a second key
SetWriteKeepsHistory(c, url) ==
    IF IsSome(url)
    THEN StoreSet(IF StoreHas(c, DEFAULT_SERVER_KEY)
                  THEN StoreSet(c, "previousServerUrl", c[DEFAULT_SERVER_KEY]) ELSE c,
                  DEFAULT_SERVER_KEY, JsonString(Unwrap(url)))
    ELSE StoreDelete(c, DEFAULT_SERVER_KEY)
\* set_default_server_url's match on url: store.set or store.delete
SetWrite(c, url) ==
    IF IsSome(url)
    THEN StoreSet(c, DEFAULT_SERVER_KEY, JsonString(Unwrap(url)))
    ELSE StoreDelete(c, DEFAULT_SERVER_KEY)

\* the file is written from the content the store was loaded with
SaveFileStale(c, d, ok) == d
\* store.save(): the file gets the in-memory content, or the write fails
SaveFile(c, d, ok) == IF ok THEN c ELSE d

BeginGet(t) ==
    /\ Begin(t, "get_default_server_url", None, "open")
    /\ UNCHANGED <<env, store, manifest>>

BeginSet(t) ==
    /\ \E url \in OptionOf(Urls) : Begin(t, "set_default_server_url", url, "open")
    /\ UNCHANGED <<env, store, manifest>>

\* app.store(STORE_NAME).map_err(|e| e.to_string())?  The first open of a
\* process run loads the file; later opens get the same store.
StoreOpen(t, next) ==
    /\ tasks[t].pc = "open"
    /\ IF storeAvailable
       THEN /\ Proceed(t, Call("store", TRUE, Unit), next)
            /\ loaded' = TRUE
            /\ cache' = IF loaded THEN cache ELSE disk
       ELSE /\ Fail(t, Call("store", FALSE, StoreOpenError), StoreOpenError)
            /\ UNCHANGED <<loaded, cache>>
    /\ UNCHANGED <<env, disk, manifest>>

GetOpen(t) == tasks[t].cmd = "get_default_server_url" /\ StoreOpen(t, "get")

GetRead(t) ==
    /\ At(t, "get_default_server_url", "get")
    /\ Return(t, Call("get", TRUE, StoreGet(cache, DEFAULT_SERVER_KEY)), GetResult(cache))
    /\ UNCHANGED <<env, store, manifest>>

SetOpen(t) == tasks[t].cmd = "set_default_server_url" /\ StoreOpen(t, "write")

\* store.set(DEFAULT_SERVER_KEY, json!(u)) or store.delete(DEFAULT_SERVER_KEY)
SetStore(t) ==
    /\ At(t, "set_default_server_url", "write")
    /\ cache' = SetWrite(cache, tasks[t].arg)
    /\ Proceed(t, IF IsSome(tasks[t].arg)
                  THEN Call("set", TRUE, Unit)
                  ELSE Call("delete", TRUE, StoreHas(cache, DEFAULT_SERVER_KEY)),
               "save")
    /\ UNCHANGED <<env, loaded, disk, manifest>>

\* store.save().map_err(|e| e.to_string()), its outcome among oks
SetSaveWith(t, oks) ==
    /\ At(t, "set_default_server_url", "save")
    /\ \E ok \in oks :
           /\ disk' = SaveFile(cache, disk, ok)
           /\ IF ok
              THEN Return(t, Call("save", TRUE, Unit), Ok(Unit))
              ELSE Fail(t, Call("save", FALSE, StoreSaveError), StoreSaveError)
    /\ UNCHANGED <<env, loaded, cache, manifest>>

SetSave(t) == SetSaveWith(t, BOOLEAN)
SetSaveOk(t) == SetSaveWith(t, {TRUE})

(* ---------------------------- specifications --------------------------- *)
\* an invocation arrives: the commands of the settings store and the process
StoreStart(t) ==
    \/ BeginGet(t)
    \/ BeginSet(t)
    \/ Restart(t)

StoreStep(t) ==
    \/ GetOpen(t)
    \/ GetRead(t)
    \/ SetOpen(t)
    \/ SetStore(t)
    \/ SetSave(t)

\* the commands of the updater
UpdateStart(t) ==
    \/ BeginCheckUpdate(t)
    \/ BeginInstallUpdate(t)

UpdateStep(t) ==
    \/ Updater(t)
    \/ CheckUpdateCheck(t)
    \/ InstallUpdateCheck(t)
    \/ InstallUpdateDownload(t)

\* the commands that make one call to the launcher, the notifier or a dialog
ShellStart(t) ==
    \/ OpenLink(t)
    \/ Notify(t)
    \/ OpenDirectoryPicker(t)
    \/ OpenFilePicker(t)
    \/ SaveFilePicker(t)

\* invocations are dispatched as independent tasks and interleave
Next ==
    \/ \E t \in Tasks : StoreStart(t) \/ UpdateStart(t) \/ ShellStart(t)
    \/ \E t \in Tasks : StoreStep(t) \/ UpdateStep(t)
    \/ ManifestChange

Spec == Init /\ [][Next]_vars

\* the caller awaits each invocation before it makes the next one
AwaitedStoreStart ==
    \/ \E t \in Tasks : AllIdle /\ BeginGet(t)
    \/ \E t \in Tasks : AllIdle /\ BeginSet(t)
    \/ \E t \in Tasks : AllIdle /\ Restart(t)

AwaitedUpdateStart ==
    \/ \E t \in Tasks : AllIdle /\ BeginCheckUpdate(t)
    \/ \E t \in Tasks : AllIdle /\ BeginInstallUpdate(t)

AwaitedShellStart ==
    \/ \E t \in Tasks : AllIdle /\ OpenLink(t)
    \/ \E t \in Tasks : AllIdle /\ Notify(t)
    \/ \E t \in Tasks : AllIdle /\ OpenDirectoryPicker(t)
    \/ \E t \in Tasks : AllIdle /\ OpenFilePicker(t)
    \/ \E t \in Tasks : AllIdle /\ SaveFilePicker(t)

NextSeq ==
    \/ AwaitedStoreStart
    \/ AwaitedUpdateStart
    \/ AwaitedShellStart
    \/ \E t \in Tasks : StoreStep(t) \/ UpdateStep(t)
    \/ ManifestChange

SpecSeq == Init /\ [][NextSeq]_vars

\* the same, for the commands of one provider: the commands of different
\* providers share no state
NextStore ==
    \/ AwaitedStoreStart
    \/ \E t \in Tasks : StoreStep(t)

SpecStore == Init /\ [][NextStore]_vars

NextUpdate ==
    \/ AwaitedUpdateStart
    \/ \E t \in Tasks : UpdateStep(t)
    \/ ManifestChange

SpecUpdate == Init /\ [][NextUpdate]_vars

NextShell == AwaitedShellStart

SpecShell == Init /\ [][NextShell]_vars

\* two set_default_server_url invocations and one get_default_server_url
\* dispatched together, every save succeeding
InitConcurrent ==
    /\ storeAvailable \in BOOLEAN
    /\ updaterAvailable = TRUE
    /\ manifest = None
    /\ disk \in InitialFiles
    /\ loaded \in (IF storeAvailable THEN BOOLEAN ELSE {FALSE})
    /\ cache = IF loaded THEN disk ELSE EmptyStore
    /\ \E a1 \in OptionOf(Urls), a2 \in OptionOf(Urls) :
           /\ tasks = [t \in Tasks |->
                         IF t = 1 THEN Invocation("set_default_server_url", a1, "open")
                         ELSE IF t = 2 THEN Invocation("set_default_server_url", a2, "open")
                         ELSE IF t = 3 THEN Invocation("get_default_server_url", None, "open")
                         ELSE Idle]
           /\ together = [valid |-> TRUE, prior |-> GetResult(disk), args |-> {a1, a2}]
    /\ last = NoInvocation
    /\ lastSet = NoSet
    /\ lastCheck = NoCheck

NextConcurrent ==
    \E t \in Tasks :
        \/ GetOpen(t)
        \/ GetRead(t)
        \/ SetOpen(t)
        \/ SetStore(t)
        \/ SetSaveOk(t)

SpecConcurrent == InitConcurrent /\ [][NextConcurrent]_vars

(* ---------------------------- properties ------------------------------- *)
Pickers == {"open_directory_picker", "open_file_picker", "save_file_picker"}
StoreCommands == {"get_default_server_url", "set_default_server_url"}

\* the settings file that holds exactly what set_default_server_url(arg) asks for
FileOf(arg) == IF IsSome(arg) THEN SingleKey(JsonString(Unwrap(arg))) ELSE EmptyStore
\* what get_default_server_url returns now, and what it returns after a restart
Observed == GetResult(IF loaded THEN cache ELSE disk)
Persisted == GetResult(disk)

\* no provider call appears twice in a call log
AtMostOnce(calls) ==
    \A i \in DOMAIN calls : \A j \in DOMAIN calls : calls[i].call = calls[j].call => i = j
Called(calls, name) == \E i \in DOMAIN calls : calls[i].call = name
LastCall(calls) == calls[Len(calls)]

GetAfterSet == last.cmd = "get_default_server_url" /\ lastSet.valid

\* C1: a set_default_server_url(Some(u)) that returned Ok, followed by
\* get_default_server_url with no other set in between, makes the get return
\* Ok(Some(u)) exactly.
C1_RoundTrip ==
    (GetAfterSet /\ lastSet.result.ok /\ IsSome(lastSet.arg))
        => (last.result.ok /\ last.result.val = lastSet.arg)

C1_Witness ==
    /\ GetAfterSet /\ lastSet.result.ok /\ lastSet.arg = Some("http://b")
    /\ last.result.ok /\ last.result.val = Some("http://b")

\* C2 as stated: set_default_server_url(None) followed by get_default_server_url
\* makes the get return Ok(None), whatever the set returned.
C2_Original ==
    (GetAfterSet /\ lastSet.arg = None) => (last.result.ok /\ last.result.val = None)

\* C2, amended: a set_default_server_url(None) that returned Ok, followed by
\* get_default_server_url with no other set in between, makes the get return
\* Ok(None); and a set(None) whose open and save succeed returns Ok, whether
\* store.delete found the key or not.
C2_ClearThenGet ==
    /\ (GetAfterSet /\ lastSet.result.ok /\ lastSet.arg = None)
           => (last.result.ok /\ last.result.val = None)
    /\ (/\ last.cmd = "set_default_server_url" /\ last.arg = None
        /\ \A i \in DOMAIN last.calls :
               last.calls[i].call \in {"store", "save"} => last.calls[i].ok)
           => last.result.ok

C2_Witness ==
    /\ GetAfterSet /\ lastSet.result.ok /\ lastSet.arg = None
    /\ last.result.ok /\ last.result.val = None

\* the last set_default_server_url(None) returned Ok although store.delete found no key
C2_AbsentWitness ==
    /\ last.cmd = "set_default_server_url" /\ last.arg = None /\ last.result.ok
    /\ last.calls[2].call = "delete" /\ last.calls[2].ret = FALSE

\* C3 as stated: after any sequence of sequential set_default_server_url calls
\* the settings file holds exactly what the last call asked for: the key
\* defaultServerUrl mapped to its argument, or no key when it passed None.
C3_Original == lastSet.valid => disk = FileOf(lastSet.arg)

\* C3, amended: the same, when the last call returned Ok.
C3_LastWriteWins == (lastSet.valid /\ lastSet.result.ok) => disk = FileOf(lastSet.arg)

C3_Witness ==
    /\ lastSet.valid /\ lastSet.result.ok /\ lastSet.arg = Some("http://b")
    /\ disk = FileOf(Some("http://b"))
    /\ AllIdle

InstallAfterNoUpdate ==
    /\ last.cmd = "install_update"
    /\ lastCheck.valid /\ lastCheck.result.ok
    /\ ~lastCheck.result.val.update_available

\* C4 as stated: install_update called after check_update reported
\* update_available: false makes no download_and_install call and returns
\* "No update available" (or the error of its own updater() or check() call),
\* also when the manifest changed in between.
C4_Original ==
    InstallAfterNoUpdate
        => /\ ~Called(last.calls, "download_and_install")
           /\ ~last.result.ok
           /\ last.result.err \in {"No update available", UpdaterBuildError, UpdaterCheckError}

\* C4, amended: install_update returns "No update available" and makes no
\* download_and_install call whenever its own re-check reports no update;
\* it makes the download_and_install call only when its own re-check found one.
C4_Recheck ==
    last.cmd = "install_update"
        => /\ (Len(last.calls) >= 2 /\ last.calls[2].ok /\ last.calls[2].ret = None)
                  => /\ ~last.result.ok /\ last.result.err = "No update available"
                     /\ ~Called(last.calls, "download_and_install")
           /\ Called(last.calls, "download_and_install")
                  => (last.calls[2].ok /\ IsSome(last.calls[2].ret))

C4_Witness ==
    /\ InstallAfterNoUpdate
    /\ Len(last.calls) = 2 /\ last.calls[2].ok /\ last.calls[2].ret = None
    /\ last.result.err = "No update available"

\* C5: every picker command returns Ok, and Ok(None) when the dialog was cancelled.
C5_CancelIsAbsent ==
    last.cmd \in Pickers
        => /\ last.result.ok
           /\ last.calls[1].ret = None => last.result.val = None

C5_Witness ==
    /\ last.cmd = "open_directory_picker"
    /\ last.calls[1].call = "pick_folders" /\ last.calls[1].ret = None
    /\ last.result.ok /\ last.result.val = None

\* C6: within one invocation every provider call is made at most once, and the
\* first failing call is the last call: the invocation returns its error.
C6_NoRetries ==
    /\ \A t \in Tasks :
           /\ AtMostOnce(tasks[t].calls)
           /\ \A i \in DOMAIN tasks[t].calls : tasks[t].calls[i].ok
    /\ AtMostOnce(last.calls)
    /\ \A i \in DOMAIN last.calls : i < Len(last.calls) => last.calls[i].ok
    /\ (last.calls # <<>> /\ ~LastCall(last.calls).ok)
           => (~last.result.ok /\ last.result.err = LastCall(last.calls).ret)

C6_Witness ==
    /\ last.cmd = "set_default_server_url"
    /\ Len(last.calls) = 3 /\ last.calls[3].call = "save" /\ ~last.calls[3].ok
    /\ ~last.result.ok /\ last.result.err = StoreSaveError

C7_Errors ==
    /\ (last.cmd \in StoreCommands /\ ~storeAvailable) => ~last.calls[1].ok
    /\ (last.cmd \in StoreCommands /\ ~last.calls[1].ok)
           => /\ ~last.result.ok /\ last.result.err = StoreOpenError
              /\ Len(last.calls) = 1
    /\ (last.cmd = "set_default_server_url" /\ Called(last.calls, "save")
            /\ ~LastCall(last.calls).ok)
           => (~last.result.ok /\ last.result.err = StoreSaveError)

\* C7: get_default_server_url and set_default_server_url return the store's
\* error when the store cannot be opened, set_default_server_url returns it when
\* save fails; when the store cannot be opened no set, delete or save is made and
\* the in-memory content and the settings file stay as they are.
C7_StoreErrors ==
    /\ []C7_Errors
    /\ [][~storeAvailable => UNCHANGED <<loaded, cache, disk>>]_vars

C7_Witness ==
    /\ last.cmd = "set_default_server_url" /\ IsSome(last.arg)
    /\ ~storeAvailable
    /\ ~last.result.ok /\ last.result.err = StoreOpenError
    /\ ~loaded /\ StoreHas(disk, DEFAULT_SERVER_KEY)

\* C8 as stated: between invocations get_default_server_url returns the value
\* the settings file holds, also after a set_default_server_url whose save failed.
C8_Original == AllIdle => Observed = Persisted

\* C9 as stated: once both set_default_server_url invocations have returned,
\* the settings file equals the in-memory content and holds the argument of one
\* of them; the concurrent get_default_server_url returns Ok with the prior
\* value or one of the two arguments.
C9_Original ==
    /\ (IsIdle(1) /\ IsIdle(2))
           => /\ loaded /\ cache = disk
              /\ \E a \in together.args : disk = FileOf(a)
    /\ last.cmd = "get_default_server_url"
           => /\ last.result.ok
              /\ last.result.val \in {together.prior.val} \cup together.args

\* C9, amended: the same, when the store can be opened.
C9_Concurrent == storeAvailable => C9_Original

\* both have returned, the file holds the argument of the one that returned first
C9_Witness ==
    /\ AllIdle /\ storeAvailable
    /\ together.args = {Some("http://a"), Some("http://b")}
    /\ lastSet.arg = Some("http://b")
    /\ disk = FileOf(Some("http://a")) /\ cache = disk

\* C10: check_update returns Ok(UpdateInfo) with update_available true exactly
\* when version is present, version being what updater.check() reported; it
\* returns the error when updater() or check() failed; and it makes no provider
\* call but updater() and check().
C10_UpdateInfo ==
    last.cmd = "check_update"
        => /\ \A i \in DOMAIN last.calls : last.calls[i].call \in {"updater", "check"}
           /\ last.result.ok
                  => /\ Len(last.calls) = 2 /\ last.calls[2].ok
                     /\ last.result.val.version = last.calls[2].ret
                     /\ last.result.val.update_available = IsSome(last.result.val.version)
           /\ ~last.result.ok
                  => /\ ~LastCall(last.calls).ok
                     /\ last.result.err = LastCall(last.calls).ret

C10_Witness ==
    /\ last.cmd = "check_update" /\ last.result.ok
    /\ last.result.val.update_available
    /\ last.result.val.version = Some("1.2.0")

====
